---- MODULE Spec2Model ----
(***************************************************************************)
(* Model of src/s3_orchestrator.py: the per-key enrichment pipeline        *)
(* (extract identifier, Excel lookup, API fetch, combine, S3 metadata      *)
(* write) and the two batch schedulers, process_keys_async (semaphore on   *)
(* one event loop) and process_keys_sync (thread pool + as_completed).     *)
(*                                                                         *)
(* Python strings that the code takes apart are tuples of one-character    *)
(* strings.  Python dictionaries are records of one fixed shape (Dict      *)
(* below) so that any two of them can be compared.                         *)
(***************************************************************************)
EXTENDS Integers, Sequences, FiniteSets, TLC

\* ------------------------------------------------------------------ bounds
MaxKeys == 2
MaxRows == 2
MaxChildren == 3
MaxKeyLen == 4

\* ------------------------------------------------------- strings and cells
Str_a == <<"a">>
Str_b == <<"b">>
Str_1 == <<"1">>
Str_nan == <<"n", "a", "n">>

\* A spreadsheet cell: an integer, a string, or the missing value NaN;
\* None appears only in rows returned by get_excel_row.
IntCell(s) == [t |-> "int", v |-> s]
StrCell(s) == [t |-> "str", v |-> s]
NaNCell == [t |-> "nan", v |-> <<>>]
NoneCell == [t |-> "none", v |-> <<>>]

\* Series.astype(str) on one cell: 1 -> "1", "1" -> "1", NaN -> "nan".
astype_str(cell) ==
  IF cell.t = "nan" THEN Str_nan
  ELSE IF cell.t = "none" THEN <<"N", "o", "n", "e">>
  ELSE cell.v

\* pd.isna(value)
isna(cell) == cell.t = "nan"

\* A row of the sheet is <<match column, other column>>.
MatchCol == 1

\* ------------------------------------------------------------ dictionaries
NoText == [text |-> "", arg |-> <<>>]
EmptyDict == [kind |-> "empty", cells |-> <<>>, msg |-> NoText]
RowDict(cells) == [kind |-> "row", cells |-> cells, msg |-> NoText]
ErrorDict(text, arg) ==
  [kind |-> "error", cells |-> <<>>, msg |-> [text |-> text, arg |-> arg]]
XmlDict(identifier) ==
  [kind |-> "xml", cells |-> <<>>, msg |-> [text |-> "", arg |-> identifier]]

\* Optional[str]
NoneMsg == [some |-> FALSE, msg |-> NoText]
SomeMsg(text) == [some |-> TRUE, msg |-> [text |-> text, arg |-> <<>>]]

EmptyMeta ==
  [kind |-> "empty", s3_key |-> <<>>, excel_data |-> EmptyDict,
   api_data |-> EmptyDict]

\* ---------------------------------------------------------- pure functions
MaxOf(S) == CHOOSE x \in S : \A y \in S : y <= x
MinOf(S) == CHOOSE x \in S : \A y \in S : x <= y

\* s.split(sep)[-1]
split_last(s, sep) ==
  LET at == {i \in 1..Len(s) : s[i] = sep}
  IN  IF at = {} THEN s ELSE SubSeq(s, MaxOf(at) + 1, Len(s))

\* s.split(sep)[0]
split_before_last(s, sep) ==
  LET at == {i \in 1..Len(s) : s[i] = sep}
  IN  IF at = {} THEN s ELSE SubSeq(s, 1, MaxOf(at) - 1)

split_first(s, sep) ==
  LET at == {i \in 1..Len(s) : s[i] = sep}
  IN  IF at = {} THEN s ELSE SubSeq(s, 1, MinOf(at) - 1)

extract_identifier_from_key(s3_key) ==
  LET filename == split_last(s3_key, "/")
  IN  split_first(filename, ".")

\* row_data[key] = None for every NaN value of the row
nan_to_none(cells) ==
  [c \in 1..Len(cells) |-> IF isna(cells[c]) THEN NoneCell ELSE cells[c]]

\* matching_rows.iloc[0]
iloc_last(rows) == rows[Len(rows)]
iloc_first(rows) == Head(rows)

\* the boolean-mask selection of the frame
matching_rows_of(df, identifier) ==
  LET Matches(row) == astype_str(row[MatchCol]) = identifier
  IN  SelectSeq(df, Matches)

get_excel_row_miss_empty(df, identifier) ==
  LET matching_rows == matching_rows_of(df, identifier)
  IN  IF matching_rows = <<>>
        THEN EmptyDict
        ELSE RowDict(nan_to_none(iloc_first(matching_rows)))

\* The sheet always has the match column, so the routine's except branch
\* (an error dictionary with str(e)) is not reached.
get_excel_row(df, identifier) ==
  LET matching_rows == matching_rows_of(df, identifier)
  IN  IF matching_rows = <<>>
        THEN ErrorDict("No matching row found for identifier: ", identifier)
        ELSE RowDict(nan_to_none(iloc_first(matching_rows)))

\* What a call of get_excel_row leaves in self.excel_df: iloc[0].to_dict()
\* builds a new dictionary, so setting its NaN values to None does not reach
\* the frame.
frame_normalised_in_place(df, identifier) ==
  LET hits == {r \in 1..Len(df) : astype_str(df[r][MatchCol]) = identifier}
  IN  IF hits = {} THEN df
      ELSE [df EXCEPT ![MinOf(hits)] = nan_to_none(df[MinOf(hits)])]
frame_after_get_excel_row(df, identifier) == df

\* --------------------------------------------------------- the environment
\* What one GET of the remote API does: 200 with well-formed XML, a status
\* other than 200, a transport exception (timeout, connection reset), or
\* 200 with a body that ET.fromstring rejects.
FetchResponses == {"ok", "s404", "transport", "badxml"}
Raising == {"transport", "badxml"}
Status404 == <<"4", "0", "4">>

\* str(e) of the exception a raising response produces
exc_text(resp) == IF resp = "transport" THEN "transport error" ELSE "parse error"

\* Object keys of the bucket listing.  "d/a.x" and "a" both extract to "a".
Key_dax == <<"d", "/", "a", ".", "x">>
Key_a == <<"a">>
Key_bx == <<"b", ".", "x">>
KeySet == {Key_dax, Key_a, Key_bx}

\* The sheet loaded at construction: two rows share the key "a", the first
\* has a missing value, and no row has the key "b".
LoadedSheet ==
  << <<StrCell(Str_a), NaNCell>>, <<StrCell(Str_a), IntCell(Str_1)>> >>

\* ----------------------------------------------------------- the pipeline
ProcessingResult(s3_key, excel_data, api_data, combined_metadata, success, error_message) ==
  [s3_key |-> s3_key, excel_data |-> excel_data, api_data |-> api_data,
   combined_metadata |-> combined_metadata, success |-> success,
   error_message |-> error_message]

\* the result built in every except branch
FailedResult(s3_key, text) ==
  ProcessingResult(s3_key, EmptyDict, EmptyDict, EmptyMeta, FALSE,
                   SomeMsg(text))

NoResult == ProcessingResult(<<>>, EmptyDict, EmptyDict, EmptyMeta, FALSE, NoneMsg)

\* the non-200 branch of both fetch routines
status_error(resp) == ErrorDict("API request failed with status ", Status404)

\* query_api: every exception of the request or of the XML parse is caught
\* inside and turned into an error dictionary.
query_api(identifier, resp) ==
  IF resp = "ok" THEN XmlDict(identifier)
  ELSE IF resp = "s404" THEN status_error(resp)
  ELSE ErrorDict(exc_text(resp), <<>>)

\* combine_data (the timestamp is not modelled)
combine_data(s3_key, excel_data, api_data) ==
  [kind |-> "meta", s3_key |-> s3_key, excel_data |-> excel_data,
   api_data |-> api_data]

\* process_single_key, given the response of the GET and the value
\* update_s3_metadata returns
process_single_key_always_ok(df, s3_key, resp, written) ==
  LET identifier == extract_identifier_from_key(s3_key)
      excel_data == get_excel_row(df, identifier)
      api_data == query_api(identifier, resp)
      combined_metadata == combine_data(s3_key, excel_data, api_data)
  IN  ProcessingResult(s3_key, excel_data, api_data, combined_metadata,
                       TRUE, NoneMsg)

process_single_key(df, s3_key, resp, written) ==
  LET identifier == extract_identifier_from_key(s3_key)
      excel_data == get_excel_row(df, identifier)
      api_data == query_api(identifier, resp)
      combined_metadata == combine_data(s3_key, excel_data, api_data)
  IN  ProcessingResult(s3_key, excel_data, api_data, combined_metadata,
                       written, NoneMsg)

\* process_single_key_sync: the request and the parse are inside the
\* routine's own try, so a raising response ends in the except branch.
sync_write_only_ok(resp) == resp = "ok"
sync_reaches_write(resp) == resp \notin Raising

process_single_key_sync(df, s3_key, resp, written) ==
  LET identifier == extract_identifier_from_key(s3_key)
      excel_data == get_excel_row(df, identifier)
      api_data == IF resp = "ok" THEN XmlDict(identifier) ELSE status_error(resp)
      combined_metadata == combine_data(s3_key, excel_data, api_data)
  IN  IF sync_reaches_write(resp)
        THEN ProcessingResult(s3_key, excel_data, api_data, combined_metadata,
                              written, NoneMsg)
        ELSE FailedResult(s3_key, exc_text(resp))

\* the ProcessingResult the schedulers build for a task that raised
scheduler_failure_nokey(s3_key) == FailedResult(<<>>, "unexpected")
scheduler_failure(s3_key) == FailedResult(s3_key, "unexpected")

\* ------------------------------------------------------------------ state
VARIABLES
  strategy,        \* "async" (use_async) or "sync"
  max_concurrent,  \* semaphore size / max_workers
  s3_keys,         \* the batch, in listing order
  excel_df,        \* self.excel_df
  pc,              \* per position: "waiting", "fetching", "done", "raised"
  semaphore,       \* value of the asyncio.Semaphore
  task_result,     \* per position: the ProcessingResult its run returned
  fetch_resp,      \* per position: what the GET did ("none" before it)
  write_ret,       \* per position: "none", "true", "false"
  fetch_calls,     \* per position: number of GETs issued
  write_calls,     \* per position: number of update_s3_metadata calls
  s3_metadata,     \* per object key: the metadata document stored on it
  completed,       \* positions in completion order: async, the order the
                   \* tasks finished; sync, the order as_completed yielded
  results,         \* the list the scheduler builds and returns
  returned,        \* the scheduler has returned
  lookup_id,       \* SpecLookup: the identifier passed to get_excel_row
  lookup_out,      \* SpecLookup: <<>> or <<the dictionary returned>>
  xml_in,          \* SpecXml: the element passed to _xml_to_dict
  xml_out,         \* SpecXml: <<>> or <<the value returned>>
  key_in,          \* SpecExtract: the key passed to extract_identifier_from_key
  key_out          \* SpecExtract: <<>> or <<the identifier returned>>

vars == <<strategy, max_concurrent, s3_keys, excel_df, pc, semaphore,
          task_result, fetch_resp, write_ret, fetch_calls, write_calls,
          s3_metadata, completed, results, returned, lookup_id, lookup_out,
          xml_in, xml_out, key_in, key_out>>

\* the variables of the checks of the pure routines
xml_vars == <<xml_in, xml_out>>
key_vars == <<key_in, key_out>>

N == Len(s3_keys)
Pos == 1..N
Range(f) == {f[i] : i \in DOMAIN f}

\* The batches: up to MaxKeys consecutive keys, from any starting point, of
\* a listing that repeats the pattern: a key with a row, the same key again,
\* a key without a row, another object with the first key's identifier.
KeyPattern == <<Key_dax, Key_dax, Key_bx, Key_a>>
KeyAt(i) == KeyPattern[((i - 1) % Len(KeyPattern)) + 1]
Batches ==
  {[i \in 1..n |-> KeyAt(o + i)] : o \in 0..(Len(KeyPattern) - 1), n \in 1..MaxKeys}

Init ==
  /\ strategy \in {"async", "sync"}
  /\ s3_keys \in Batches
  /\ max_concurrent \in 1..Len(s3_keys)
  /\ excel_df = LoadedSheet
  /\ pc = [i \in 1..Len(s3_keys) |-> "waiting"]
  /\ semaphore = max_concurrent
  /\ task_result = [i \in 1..Len(s3_keys) |-> NoResult]
  /\ fetch_resp = [i \in 1..Len(s3_keys) |-> "none"]
  /\ write_ret = [i \in 1..Len(s3_keys) |-> "none"]
  /\ fetch_calls = [i \in 1..Len(s3_keys) |-> 0]
  /\ write_calls = [i \in 1..Len(s3_keys) |-> 0]
  /\ s3_metadata = [k \in Range(s3_keys) |-> EmptyMeta]
  /\ completed = <<>>
  /\ results = <<>>
  /\ returned = FALSE
  /\ lookup_id = <<>>
  /\ lookup_out = <<>>
  /\ xml_in = <<>> /\ xml_out = <<>>
  /\ key_in = <<>> /\ key_out = <<>>

InFlight == {i \in Pos : pc[i] = "fetching"}
Finished == {i \in Pos : pc[i] \in {"done", "raised"}}
BoolStr(b) == IF b THEN "true" ELSE "false"

\* update_s3_metadata: copy_object replaces the object's metadata by the
\* document when it succeeds; any exception leaves the object alone and
\* makes the routine return False.
update_s3_metadata_other_key(store, s3_key, metadata, written) ==
  LET target == CHOOSE k \in DOMAIN store :
                  k # s3_key \/ Cardinality(DOMAIN store) = 1
  IN  IF written THEN [store EXCEPT ![target] = metadata] ELSE store

update_s3_metadata(store, s3_key, metadata, written) ==
  IF written THEN [store EXCEPT ![s3_key] = metadata] ELSE store

\* Each scheduler creates one task (one submitted call) per position of the
\* batch; a task is started once and never resubmitted.
task_pending_or_failed(i) ==
  pc[i] = "waiting" \/ (pc[i] = "done" /\ ~task_result[i].success)
task_pending(i) == pc[i] = "waiting"

\* ------------------------------------------- process_keys_async (one loop)
\* "async with semaphore" admits a task only while the value is positive.
sem_unguarded == TRUE
sem_can_acquire == semaphore > 0

\* leaving "async with semaphore", normally or by an exception, releases it
sem_kept(value) == value
sem_release(value) == value + 1

\* Task i passes the semaphore, extracts the identifier, reads its row and
\* suspends in the GET of query_api.
AsyncStart(i) ==
  /\ strategy = "async" /\ ~returned
  /\ task_pending(i)
  /\ sem_can_acquire
  /\ semaphore' = semaphore - 1
  /\ excel_df' = frame_after_get_excel_row(
                    excel_df, extract_identifier_from_key(s3_keys[i]))
  /\ pc' = [pc EXCEPT ![i] = "fetching"]
  /\ fetch_calls' = [fetch_calls EXCEPT ![i] = @ + 1]
  /\ UNCHANGED <<strategy, max_concurrent, s3_keys, task_result,
                 fetch_resp, write_ret, write_calls, s3_metadata, completed,
                 results, returned, lookup_id, lookup_out, xml_vars, key_vars>>

\* The GET of task i ends; the rest of process_single_key runs without a
\* further suspension and the semaphore is released on the way out.
AsyncResume(i) ==
  /\ strategy = "async" /\ ~returned
  /\ pc[i] = "fetching"
  /\ \E resp \in FetchResponses, written \in BOOLEAN :
       LET r == process_single_key(excel_df, s3_keys[i], resp, written)
       IN  /\ fetch_resp' = [fetch_resp EXCEPT ![i] = resp]
           /\ write_calls' = [write_calls EXCEPT ![i] = @ + 1]
           /\ write_ret' = [write_ret EXCEPT ![i] = BoolStr(written)]
           /\ s3_metadata' = update_s3_metadata(s3_metadata, s3_keys[i],
                                                r.combined_metadata, written)
           /\ task_result' = [task_result EXCEPT ![i] = r]
  /\ pc' = [pc EXCEPT ![i] = "done"]
  /\ semaphore' = sem_release(semaphore)
  /\ completed' = Append(completed, i)
  /\ UNCHANGED <<strategy, max_concurrent, s3_keys, excel_df, fetch_calls,
                 results, returned, lookup_id, lookup_out, xml_vars, key_vars>>

\* An exception leaves process_single_key itself (one its own handler does
\* not turn into a result); "async with" still releases the semaphore and
\* gather(return_exceptions=True) keeps the exception as the task's result.
AsyncRaise(i) ==
  /\ strategy = "async" /\ ~returned
  /\ pc[i] = "fetching"
  /\ pc' = [pc EXCEPT ![i] = "raised"]
  /\ semaphore' = sem_release(semaphore)
  /\ completed' = Append(completed, i)
  /\ UNCHANGED <<strategy, max_concurrent, s3_keys, excel_df, task_result,
                 fetch_resp, write_ret, fetch_calls, write_calls, s3_metadata,
                 results, returned, lookup_id, lookup_out, xml_vars, key_vars>>

\* the entry a scheduler reports for position i
reported_dropped(i) == task_result[i]
reported(i) ==
  IF pc[i] = "raised" THEN scheduler_failure(s3_keys[i]) ELSE task_result[i]

\* asyncio.gather returns the results in the order of the tasks
gather_reversed(n) == [j \in 1..n |-> n + 1 - j]
gather_order(n) == [j \in 1..n |-> j]

\* every task is finished: gather returns and the result list is built
AsyncGather ==
  /\ strategy = "async" /\ ~returned
  /\ Finished = Pos
  /\ results' = [j \in Pos |-> reported(gather_order(N)[j])]
  /\ returned' = TRUE
  /\ UNCHANGED <<strategy, max_concurrent, s3_keys, excel_df, pc, semaphore,
                 task_result, fetch_resp, write_ret, fetch_calls, write_calls,
                 s3_metadata, completed, lookup_id, lookup_out, xml_vars, key_vars>>

\* ------------------------------------------ process_keys_sync (thread pool)
\* ThreadPoolExecutor(max_workers) runs at most max_workers calls at once
worker_idle == Cardinality(InFlight) < max_concurrent

\* a worker takes the call for position i and blocks in requests.get
SyncStart(i) ==
  /\ strategy = "sync" /\ ~returned
  /\ task_pending(i)
  /\ worker_idle
  /\ excel_df' = frame_after_get_excel_row(
                    excel_df, extract_identifier_from_key(s3_keys[i]))
  /\ pc' = [pc EXCEPT ![i] = "fetching"]
  /\ fetch_calls' = [fetch_calls EXCEPT ![i] = @ + 1]
  /\ UNCHANGED <<strategy, max_concurrent, s3_keys, semaphore,
                 task_result, fetch_resp, write_ret, write_calls, s3_metadata,
                 completed, results, returned, lookup_id, lookup_out, xml_vars, key_vars>>

\* requests.get of position i ends and process_single_key_sync runs to its
\* return; the metadata write happens only when nothing raised before it
SyncFinish(i) ==
  /\ strategy = "sync" /\ ~returned
  /\ pc[i] = "fetching"
  /\ \E resp \in FetchResponses, written \in BOOLEAN :
       LET r == process_single_key_sync(excel_df, s3_keys[i], resp, written)
       IN  /\ fetch_resp' = [fetch_resp EXCEPT ![i] = resp]
           /\ task_result' = [task_result EXCEPT ![i] = r]
           /\ IF sync_reaches_write(resp)
                THEN /\ write_calls' = [write_calls EXCEPT ![i] = @ + 1]
                     /\ write_ret' = [write_ret EXCEPT ![i] = BoolStr(written)]
                     /\ s3_metadata' =
                          update_s3_metadata(s3_metadata, s3_keys[i],
                                             r.combined_metadata, written)
                ELSE /\ written
                     /\ UNCHANGED <<write_calls, write_ret, s3_metadata>>
  /\ pc' = [pc EXCEPT ![i] = "done"]
  /\ UNCHANGED <<strategy, max_concurrent, s3_keys, excel_df, semaphore,
                 fetch_calls, completed, results, returned, lookup_id,
                 lookup_out, xml_vars, key_vars>>

\* the call of position i raises out of process_key_sync (asyncio.run or the
\* routine's own handler fails); the future holds the exception
SyncRaise(i) ==
  /\ strategy = "sync" /\ ~returned
  /\ pc[i] = "fetching"
  /\ pc' = [pc EXCEPT ![i] = "raised"]
  /\ UNCHANGED <<strategy, max_concurrent, s3_keys, excel_df, semaphore,
                 task_result, fetch_resp, write_ret, fetch_calls, write_calls,
                 s3_metadata, completed, results, returned, lookup_id,
                 lookup_out, xml_vars, key_vars>>

\* as_completed yields the finished future of position i; its result, or
\* the failure built from its exception, is appended
SyncCollect(i) ==
  /\ strategy = "sync" /\ ~returned
  /\ i \in Finished
  /\ i \notin Range(completed)
  /\ completed' = Append(completed, i)
  /\ results' = Append(results, reported(i))
  /\ UNCHANGED <<strategy, max_concurrent, s3_keys, excel_df, pc, semaphore,
                 task_result, fetch_resp, write_ret, fetch_calls, write_calls,
                 s3_metadata, returned, lookup_id, lookup_out, xml_vars, key_vars>>

\* every future was yielded: the executor shuts down and the list is returned
SyncReturn ==
  /\ strategy = "sync" /\ ~returned
  /\ Len(completed) = N
  /\ returned' = TRUE
  /\ UNCHANGED <<strategy, max_concurrent, s3_keys, excel_df, pc, semaphore,
                 task_result, fetch_resp, write_ret, fetch_calls, write_calls,
                 s3_metadata, completed, results, lookup_id, lookup_out, xml_vars, key_vars>>

Next ==
  \/ \E i \in Pos : AsyncStart(i)
  \/ \E i \in Pos : AsyncResume(i)
  \/ \E i \in Pos : AsyncRaise(i)
  \/ AsyncGather
  \/ \E i \in Pos : SyncStart(i)
  \/ \E i \in Pos : SyncFinish(i)
  \/ \E i \in Pos : SyncRaise(i)
  \/ \E i \in Pos : SyncCollect(i)
  \/ SyncReturn

Spec == Init /\ [][Next]_vars

\* The event loop and the pool's threads keep running what is ready, and a
\* GET ends by its response or by its 30 s timeout: a step that can be taken
\* is eventually taken.
FairSpec == Spec /\ WF_vars(Next)

\* -------------------------------------------------- get_excel_row on its own
MatchCells == {IntCell(Str_1), StrCell(Str_1), StrCell(Str_a), NaNCell,
               StrCell(Str_nan)}
OtherCells == {NaNCell, IntCell(Str_1), StrCell(Str_a)}
Rows == {<<m, o>> : m \in MatchCells, o \in OtherCells}
Sheets == UNION {[1..n -> Rows] : n \in 0..MaxRows}
Identifiers == {Str_1, Str_a, Str_b, Str_nan}

InitLookup ==
  /\ excel_df \in Sheets
  /\ lookup_id \in Identifiers
  /\ lookup_out = <<>>
  /\ xml_in = <<>> /\ xml_out = <<>>
  /\ key_in = <<>> /\ key_out = <<>>
  /\ strategy = "sync"
  /\ max_concurrent = 1
  /\ s3_keys = <<>>
  /\ pc = <<>>
  /\ semaphore = 1
  /\ task_result = <<>>
  /\ fetch_resp = <<>>
  /\ write_ret = <<>>
  /\ fetch_calls = <<>>
  /\ write_calls = <<>>
  /\ s3_metadata = <<>>
  /\ completed = <<>>
  /\ results = <<>>
  /\ returned = FALSE

LookupCall ==
  /\ lookup_out = <<>>
  /\ lookup_out' = <<get_excel_row(excel_df, lookup_id)>>
  /\ excel_df' = frame_after_get_excel_row(excel_df, lookup_id)
  /\ UNCHANGED <<strategy, max_concurrent, s3_keys, pc, semaphore,
                 task_result, fetch_resp, write_ret, fetch_calls, write_calls,
                 s3_metadata, completed, results, returned, lookup_id,
                 xml_vars, key_vars>>

NextLookup == LookupCall

SpecLookup == InitLookup /\ [][NextLookup]_vars

\* ================================================================ properties
Successes == {j \in 1..Len(results) : results[j].success}
Failures == {j \in 1..Len(results) : ~results[j].success}
Occurrences(seq, k) == Cardinality({j \in 1..Len(seq) : seq[j] = k})
ResultKeys == [j \in 1..Len(results) |-> results[j].s3_key]

\* the input position whose outcome is results[j]
PosOfResult(j) == IF strategy = "async" THEN j ELSE completed[j]

\* C1: under both strategies the returned batch has exactly N outcomes, one
\* per input position, and the multiset of their s3_key values equals the
\* multiset of the input keys, whatever happened in the individual runs.
C1_OneOutcomePerIdentifier ==
  returned =>
    /\ Len(results) = N
    /\ \A k \in KeySet : Occurrences(ResultKeys, k) = Occurrences(s3_keys, k)
    /\ \A i \in Pos : Cardinality({j \in 1..Len(results) : PosOfResult(j) = i}) = 1

C1_Witness ==
  /\ returned /\ N = 2 /\ max_concurrent = 1
  /\ s3_keys[1] = s3_keys[2]
  /\ \E i \in Pos : fetch_resp[i] \in Raising
  /\ \E i \in Pos : write_ret[i] = "false" \/ pc[i] = "raised"

\* C2: in a returned batch where exactly one fetch raised a transport error
\* and every other step of every run succeeded, N-1 outcomes are successes
\* and exactly one is a failure, which carries an error message.
C2_FailureIsolation ==
  ( /\ returned
    /\ \A i \in Pos : pc[i] = "done" /\ write_ret[i] # "false"
    /\ Cardinality({i \in Pos : fetch_resp[i] = "transport"}) = 1
    /\ \A i \in Pos : fetch_resp[i] \in {"ok", "transport"} )
  => /\ Cardinality(Successes) = N - 1
     /\ Cardinality(Failures) = 1
     /\ \A j \in Failures : results[j].error_message.some

\* C3: at every moment at most max_concurrent runs are in flight, and the
\* semaphore of the cooperative strategy counts exactly the free slots.
C3_BoundedInFlight ==
  /\ Cardinality(InFlight) <= max_concurrent
  /\ strategy = "async" =>
       semaphore >= 0 /\ semaphore = max_concurrent - Cardinality(InFlight)

C3_Witness ==
  /\ max_concurrent < N
  /\ Cardinality(InFlight) = max_concurrent
  /\ \E i \in Pos : pc[i] = "raised" \/ (pc[i] = "done" /\ ~task_result[i].success)

\* C4: the list process_keys_async returns holds at index i the outcome of
\* s3_keys[i], in whatever order the runs completed and however they ended.
C4_AsyncPreservesInputOrder ==
  (strategy = "async" /\ returned) =>
    /\ Len(results) = N
    /\ \A i \in Pos :
         /\ results[i].s3_key = s3_keys[i]
         /\ pc[i] = "done" =>
              results[i] = process_single_key(excel_df, s3_keys[i], fetch_resp[i],
                                              write_ret[i] = "true")
         /\ pc[i] = "raised" =>
              ~results[i].success /\ results[i].error_message.some

C4_Witness ==
  /\ strategy = "async" /\ returned /\ N = 2
  /\ completed = <<2, 1>>
  /\ pc[2] = "raised"
  /\ fetch_resp[1] = "ok" /\ write_ret[1] = "true"

\* the success flag and the presence of an error message of an outcome
Flags(r) == <<r.success, r.error_message.some>>

\* the pipeline of the strategy that is not the one running
other_pipeline(df, s3_key, resp, written) ==
  IF strategy = "async" THEN process_single_key_sync(df, s3_key, resp, written)
  ELSE process_single_key(df, s3_key, resp, written)

\* C5: for the same key and the same behaviour of the environment (fetch
\* response, value returned by the writer) both strategies produce an outcome
\* with the same success flag and the same presence of an error message.
C5_StrategiesAgree ==
  \A i \in Pos :
    pc[i] = "done" =>
      \A written \in BOOLEAN :
        (write_ret[i] # "none" => written = (write_ret[i] = "true")) =>
          Flags(task_result[i]) =
            Flags(other_pipeline(excel_df, s3_keys[i], fetch_resp[i], written))

\* C6: every returned outcome with success = false carries an error message.
C6_FailedHasMessage ==
  \A j \in 1..Len(results) : ~results[j].success => results[j].error_message.some

\* C7: a run that raised does not abort the batch: the scheduler can always
\* take a further step until it returns, and the returned list holds for
\* every raised run a failed outcome with that run's key and a message, and
\* for every other position the outcome its run returned.
C7_RaisedRunIsReported ==
  /\ ~returned => ENABLED Next
  /\ returned =>
       /\ Len(results) = N
       /\ \A i \in Pos : pc[i] \in {"done", "raised"} /\ fetch_calls[i] = 1
       /\ \A j \in 1..Len(results) :
            LET i == PosOfResult(j)
            IN  /\ pc[i] = "raised" =>
                     /\ results[j].s3_key = s3_keys[i]
                     /\ ~results[j].success
                     /\ results[j].error_message.some
                /\ pc[i] = "done" => results[j] = task_result[i]

C7_Witness ==
  /\ returned /\ N = 2
  /\ pc[1] = "raised"
  /\ pc[2] = "done" /\ task_result[2].success

LookupMiss(i) ==
  \A r \in 1..Len(excel_df) :
    astype_str(excel_df[r][MatchCol]) # extract_identifier_from_key(s3_keys[i])

NotFoundMarker(i) ==
  ErrorDict("No matching row found for identifier: ",
            extract_identifier_from_key(s3_keys[i]))

\* the fetch of position i raised into the handler of the pipeline
FetchRaisedInPipeline(i) == strategy = "sync" /\ fetch_resp[i] \in Raising

LookupHits == {r \in 1..Len(excel_df) : astype_str(excel_df[r][MatchCol]) = lookup_id}

\* C10: get_excel_row returns the first row in input order whose stringified
\* match column equals the identifier, each NaN of it replaced by None, and
\* the not-found marker when no row matches.
C10_LookupFirstWins ==
  lookup_out # <<>> =>
    IF LookupHits = {}
      THEN lookup_out[1] =
             ErrorDict("No matching row found for identifier: ", lookup_id)
      ELSE LET first == excel_df[MinOf(LookupHits)]
           IN  /\ lookup_out[1].kind = "row"
               /\ Len(lookup_out[1].cells) = Len(first)
               /\ \A c \in 1..Len(first) :
                    lookup_out[1].cells[c] =
                      IF first[c] = NaNCell THEN NoneCell ELSE first[c]

C10_Witness ==
  /\ lookup_out # <<>>
  /\ Cardinality(LookupHits) >= 2
  /\ excel_df[1][MatchCol] # excel_df[2][MatchCol]
  /\ excel_df[1][2] = NaNCell /\ excel_df[2][2] # NaNCell
  /\ lookup_out[1].cells[2] = NoneCell

\* ================================================= _xml_to_dict on its own
\* An ET.Element: tag, attrib (entries with distinct names), text (<<>> for
\* None) and the child elements in document order.
Element(tag, attrib, text, children) ==
  [tag |-> tag, attrib |-> attrib, text |-> text, children |-> children]

\* What _xml_to_dict builds: a str, a dict (entries in insertion order) or a
\* list (entries with the key "").
StrVal(s) == [kind |-> "str", str |-> s, items |-> <<>>]
DictVal(items) == [kind |-> "dict", str |-> <<>>, items |-> items]
ListVal(items) == [kind |-> "list", str |-> <<>>, items |-> items]
Entry(key, val) == [key |-> key, val |-> val]

\* str.strip() for the blank character
RECURSIVE lstrip(_)
lstrip(s) == IF s # <<>> /\ Head(s) = " " THEN lstrip(Tail(s)) ELSE s
RECURSIVE rstrip(_)
rstrip(s) ==
  IF s # <<>> /\ s[Len(s)] = " " THEN rstrip(SubSeq(s, 1, Len(s) - 1)) ELSE s
strip(s) == rstrip(lstrip(s))

\* key in result, result[key], result[key] = val
has_key(items, key) == \E j \in 1..Len(items) : items[j].key = key
get_item(items, key) == items[CHOOSE j \in 1..Len(items) : items[j].key = key].val
set_item(items, key, val) ==
  IF has_key(items, key)
    THEN [j \in 1..Len(items) |->
            IF items[j].key = key THEN Entry(key, val) ELSE items[j]]
    ELSE Append(items, Entry(key, val))

\* the body of the loop over the children
add_child(items, tag, child_data) ==
  IF has_key(items, tag)
    THEN LET cur == get_item(items, tag)
             aslist == IF cur.kind = "list" THEN cur
                       ELSE ListVal(<<Entry("", cur)>>)
         IN  set_item(items, tag,
                      ListVal(Append(aslist.items, Entry("", child_data))))
    ELSE set_item(items, tag, child_data)

RECURSIVE xml_to_dict(_)
RECURSIVE convert_children(_, _)
convert_children(items, children) ==
  IF children = <<>> THEN items
  ELSE convert_children(
         add_child(items, Head(children).tag, xml_to_dict(Head(children))),
         Tail(children))

xml_to_dict(element) ==
  LET seeded == element.attrib
      text == strip(element.text)
  IN  IF text # <<>> /\ Len(element.children) = 0
        THEN StrVal(text)
        ELSE LET result == IF text # <<>>
                             THEN set_item(seeded, "text", StrVal(text))
                             ELSE seeded
             IN  DictVal(convert_children(result, element.children))

\* the documents converted
Tags == {"x", "y", "text"}
Attr_x1 == <<Entry("x", StrVal(Str_1))>>
Attr_id_text == <<Entry("id", StrVal(<<"5">>)), Entry("text", StrVal(<<"9">>))>>
Text_v == <<"v">>
Text_padded == <<" ", "t", " ">>
Text_blank == <<" ">>
LeafShapes == {<<<<>>, <<>>>>, <<<<>>, Text_v>>, <<Attr_x1, <<>>>>}
Leaves == {Element(t, sh[1], sh[2], <<>>) : t \in {"x", "text"}, sh \in LeafShapes}
Nested == Element("y", <<>>, Text_v, <<Element("x", <<>>, Text_padded, <<>>)>>)
ChildElements == Leaves \cup {Nested}
RootElements ==
  {Element("r", a, x, c) :
     a \in {<<>>, Attr_x1, Attr_id_text},
     x \in {<<>>, Text_blank, Text_padded},
     c \in UNION {[1..n -> ChildElements] : n \in 0..MaxChildren}}

InitXml ==
  /\ xml_in \in RootElements
  /\ xml_out = <<>>
  /\ key_in = <<>> /\ key_out = <<>>
  /\ lookup_id = <<>> /\ lookup_out = <<>>
  /\ excel_df = <<>>
  /\ strategy = "sync"
  /\ max_concurrent = 1
  /\ s3_keys = <<>>
  /\ pc = <<>>
  /\ semaphore = 1
  /\ task_result = <<>>
  /\ fetch_resp = <<>>
  /\ write_ret = <<>>
  /\ fetch_calls = <<>>
  /\ write_calls = <<>>
  /\ s3_metadata = <<>>
  /\ completed = <<>>
  /\ results = <<>>
  /\ returned = FALSE

XmlConvert ==
  /\ xml_out = <<>>
  /\ xml_out' = <<xml_to_dict(xml_in)>>
  /\ UNCHANGED <<strategy, max_concurrent, s3_keys, excel_df, pc, semaphore,
                 task_result, fetch_resp, write_ret, fetch_calls, write_calls,
                 s3_metadata, completed, results, returned, lookup_id,
                 lookup_out, xml_in, key_vars>>

NextXml == XmlConvert

SpecXml == InitXml /\ [][NextXml]_vars

\* the positions of the children of the converted element that have tag t
ChildrenTagged(t) == {j \in 1..Len(xml_in.children) : xml_in.children[j].tag = t}

\* the n-th smallest member of a set of positions
NthOf(S, n) == CHOOSE j \in S : Cardinality({i \in S : i < j}) = n - 1

\* C11: for a node with children and every tag t, one child tagged t gives
\* that child's conversion under t as a single value, and k >= 2 children
\* tagged t give under t a list of exactly their k conversions in document
\* order, whatever the attributes and the text of the node.
C11_RepeatedTagsBecomeLists ==
  (xml_out # <<>> /\ Len(xml_in.children) > 0) =>
    /\ xml_out[1].kind = "dict"
    /\ \A t \in Tags :
         LET at == ChildrenTagged(t)
             k == Cardinality(at)
         IN  k >= 1 =>
               /\ has_key(xml_out[1].items, t)
               /\ k = 1 =>
                    get_item(xml_out[1].items, t) =
                      xml_to_dict(xml_in.children[NthOf(at, 1)])
               /\ k >= 2 =>
                    LET v == get_item(xml_out[1].items, t)
                    IN  /\ v.kind = "list"
                        /\ Len(v.items) = k
                        /\ \A n \in 1..k :
                             v.items[n].val =
                               xml_to_dict(xml_in.children[NthOf(at, n)])

\* ================================== extract_identifier_from_key on its own
KeyChars == {"/", ".", "c", "e"}
ObjectKeys == UNION {[1..n -> KeyChars] : n \in 0..MaxKeyLen}

InitExtract ==
  /\ key_in \in ObjectKeys
  /\ key_out = <<>>
  /\ xml_in = <<>> /\ xml_out = <<>>
  /\ lookup_id = <<>> /\ lookup_out = <<>>
  /\ excel_df = <<>>
  /\ strategy = "sync"
  /\ max_concurrent = 1
  /\ s3_keys = <<>>
  /\ pc = <<>>
  /\ semaphore = 1
  /\ task_result = <<>>
  /\ fetch_resp = <<>>
  /\ write_ret = <<>>
  /\ fetch_calls = <<>>
  /\ write_calls = <<>>
  /\ s3_metadata = <<>>
  /\ completed = <<>>
  /\ results = <<>>
  /\ returned = FALSE

ExtractCall ==
  /\ key_out = <<>>
  /\ key_out' = <<extract_identifier_from_key(key_in)>>
  /\ UNCHANGED <<strategy, max_concurrent, s3_keys, excel_df, pc, semaphore,
                 task_result, fetch_resp, write_ret, fetch_calls, write_calls,
                 s3_metadata, completed, results, returned, lookup_id,
                 lookup_out, xml_vars, key_in>>

NextExtract == ExtractCall

SpecExtract == InitExtract /\ [][NextExtract]_vars

\* seg is the part of key after its last "/" (all of it when it has none)
IsFinalSegment(seg, key) ==
  \E p \in 0..Len(key) :
    /\ p = 0 \/ key[p] = "/"
    /\ \A j \in (p + 1)..Len(key) : key[j] # "/"
    /\ seg = SubSeq(key, p + 1, Len(key))

\* out is seg cut before its first "." (all of it when it has none)
IsCutAtFirstDot(out, seg) ==
  \E q \in 0..Len(seg) :
    /\ \A j \in 1..q : seg[j] # "."
    /\ q = Len(seg) \/ seg[q + 1] = "."
    /\ out = SubSeq(seg, 1, q)

\* C12: the identifier is the final "/"-separated segment of the key with
\* everything from its first "." onward removed; "a/b/c.ext" gives "c",
\* "file" gives "file", a key ending in "/" gives the empty string; the call
\* always returns.
C12_ExtractFinalSegmentStem ==
  /\ extract_identifier_from_key(<<"a", "/", "b", "/", "c", ".", "e", "x", "t">>) = <<"c">>
  /\ extract_identifier_from_key(<<"f", "i", "l", "e">>) = <<"f", "i", "l", "e">>
  /\ key_out # <<>> =>
       /\ \E seg \in ObjectKeys :
            IsFinalSegment(seg, key_in) /\ IsCutAtFirstDot(key_out[1], seg)
       /\ (key_in # <<>> /\ key_in[Len(key_in)] = "/") => key_out[1] = <<>>
       /\ \A j \in 1..Len(key_out[1]) : key_out[1][j] \notin {"/", "."}

C12_Witness ==
  /\ key_in = <<"e", "/", "c", ".">>
  /\ key_out = <<<<"c">>>>

\* C13: a run whose fetch ended in a network-level failure or in a body that
\* does not parse is a failure and the writer was never called for it.
C13_FetchFailureSkipsWrite ==
  \A i \in Pos :
    (pc[i] = "done" /\ fetch_resp[i] \in Raising) =>
      /\ ~task_result[i].success
      /\ write_calls[i] = 0
      /\ write_ret[i] = "none"

\* the batch is over: every run is in a terminal state, no slot is held
BatchOver ==
  /\ returned
  /\ \A i \in Pos : pc[i] \in {"done", "raised"} /\ fetch_calls[i] = 1
  /\ InFlight = {}
  /\ strategy = "async" => semaphore = max_concurrent
  /\ Len(results) = N

\* C14: under fair scheduling every submitted run is admitted and reaches a
\* terminal state, every slot taken is given back, also by runs that fail
\* or raise, and the batch returns.
C14_Termination == <>BatchOver

C14_Witness ==
  /\ BatchOver /\ N = 2 /\ max_concurrent = 1
  /\ pc[1] = "raised"
  /\ pc[2] = "done" /\ ~task_result[2].success

\* C15: for every position the GET is issued at most once and the writer is
\* called at most once, whatever those calls return; a run that has started
\* has issued exactly one GET.
C15_NoRetry ==
  \A i \in Pos :
    /\ fetch_calls[i] <= 1
    /\ write_calls[i] <= 1
    /\ pc[i] # "waiting" => fetch_calls[i] = 1
    /\ write_ret[i] # "none" => write_calls[i] = 1

C15_Witness ==
  /\ returned
  /\ \E i \in Pos :
       /\ fetch_resp[i] = "s404" /\ write_ret[i] = "false"
       /\ fetch_calls[i] = 1 /\ write_calls[i] = 1
  /\ \E i \in Pos : fetch_resp[i] = "transport" /\ fetch_calls[i] = 1

\* the run of position i got as far as returning the row it looked up
ReportsLookup(i) == pc[i] = "done" /\ task_result[i].excel_data # EmptyDict

\* C16: no step of any run changes the shared sheet: at every moment it is
\* the sheet loaded at construction, NaN values included, and runs that look
\* up the same identifier report the same row.
C16_SheetReadOnly ==
  /\ excel_df = LoadedSheet
  /\ \A i, j \in Pos :
       ( /\ ReportsLookup(i) /\ ReportsLookup(j)
         /\ extract_identifier_from_key(s3_keys[i]) =
              extract_identifier_from_key(s3_keys[j]) )
       => task_result[i].excel_data = task_result[j].excel_data

C16_Witness ==
  /\ N = 2 /\ max_concurrent = 2
  /\ s3_keys[1] # s3_keys[2]
  /\ ReportsLookup(1) /\ ReportsLookup(2)
  /\ task_result[1].excel_data.kind = "row"
  /\ task_result[1].excel_data = task_result[2].excel_data
  /\ task_result[1].excel_data.cells[2] = NoneCell
  /\ excel_df[1][2] = NaNCell

\* C17: a node without children and with non-blank text converts to the
\* trimmed text alone; a node without children and without text converts to
\* the mapping of its attributes; a node with children converts to a mapping
\* that holds its non-blank trimmed text under the key "text".
C17_LeafCollapsing ==
  xml_out # <<>> =>
    LET text == strip(xml_in.text)
        leaf == xml_in.children = <<>>
    IN  /\ (leaf /\ text # <<>>) => xml_out[1] = StrVal(text)
        /\ (leaf /\ text = <<>>) => xml_out[1] = DictVal(xml_in.attrib)
        /\ ~leaf =>
             /\ xml_out[1].kind = "dict"
             /\ text # <<>> =>
                  /\ has_key(xml_out[1].items, "text")
                  /\ get_item(xml_out[1].items, "text") = StrVal(text)

\* excel_data is what the sheet gives for the identifier: the not-found
\* marker naming it, or a row whose match column stringifies to it
LookupResultFor(excel_data, identifier) ==
  \/ /\ excel_data.kind = "error"
     /\ excel_data.msg.arg = identifier
     /\ \A r \in 1..Len(excel_df) : astype_str(excel_df[r][MatchCol]) # identifier
  \/ /\ excel_data.kind = "row"
     /\ \E r \in 1..Len(excel_df) :
          /\ astype_str(excel_df[r][MatchCol]) = identifier
          /\ excel_data.cells = [c \in 1..Len(excel_df[r]) |->
               IF excel_df[r][c] = NaNCell THEN NoneCell ELSE excel_df[r][c]]

\* api_data is a result of the GET for the identifier
FetchResultFor(api_data, identifier) ==
  \/ api_data.kind = "xml" /\ api_data.msg.arg = identifier
  \/ api_data.kind = "error" /\ api_data.cells = <<>>

\* the document is built from the key, its lookup result and its fetch result
DocumentOf(doc, s3_key) ==
  /\ doc.kind = "meta"
  /\ doc.s3_key = s3_key
  /\ LookupResultFor(doc.excel_data, extract_identifier_from_key(s3_key))
  /\ FetchResultFor(doc.api_data, extract_identifier_from_key(s3_key))

\* C18: the document stored on object k is built from k, the lookup result
\* and the fetch result for k's identifier, and was written by a run of k;
\* a successful write of a run of k is visible on k; the outcome of a run
\* that reached the writer holds the lookup row and remote record of its
\* document.
C18_NoCrossTalk ==
  /\ \A k \in DOMAIN s3_metadata :
       IF s3_metadata[k] = EmptyMeta
         THEN \A i \in Pos : s3_keys[i] = k => write_ret[i] # "true"
         ELSE /\ DocumentOf(s3_metadata[k], k)
              /\ \E i \in Pos :
                   /\ s3_keys[i] = k /\ write_ret[i] = "true"
                   /\ task_result[i].combined_metadata = s3_metadata[k]
  /\ \A i \in Pos :
       (pc[i] = "done" /\ write_calls[i] = 1) =>
         /\ task_result[i].s3_key = s3_keys[i]
         /\ DocumentOf(task_result[i].combined_metadata, s3_keys[i])
         /\ task_result[i].excel_data = task_result[i].combined_metadata.excel_data
         /\ task_result[i].api_data = task_result[i].combined_metadata.api_data

C18_Witness ==
  /\ N = 2 /\ max_concurrent = 2
  /\ s3_keys[1] = Key_a /\ s3_keys[2] = Key_dax
  /\ write_ret[1] = "true" /\ write_ret[2] = "true"
  /\ fetch_resp[1] = "ok" /\ fetch_resp[2] = "s404"
  /\ s3_metadata[Key_a].api_data.kind = "xml"
  /\ s3_metadata[Key_dax].api_data.kind = "error"

\* the summary run_orchestrator logs
successful == Cardinality({j \in 1..Len(results) : results[j].success})
failed == Len(results) - successful

\* C19: an outcome is a success exactly when the writer was called for its
\* position and returned true; the logged numbers of successes and failures
\* add up to the number of outcomes, and the second counts the outcomes with
\* success = false.
C19_SuccessIffWritten ==
  /\ \A i \in Pos :
       pc[i] = "done" =>
         (task_result[i].success <=> (write_calls[i] = 1 /\ write_ret[i] = "true"))
  /\ returned =>
       /\ \A j \in 1..Len(results) :
            results[j].success <=>
              /\ pc[PosOfResult(j)] = "done"
              /\ write_calls[PosOfResult(j)] = 1
              /\ write_ret[PosOfResult(j)] = "true"
       /\ successful + failed = N
       /\ failed = Cardinality(Failures)
       /\ successful = Cardinality({i \in Pos : write_ret[i] = "true"})

C19_Witness ==
  /\ returned /\ N = 2 /\ strategy = "sync"
  /\ successful = 1 /\ failed = 1
  /\ \E i \in Pos : fetch_resp[i] = "badxml" /\ write_calls[i] = 0
  /\ \E i \in Pos : write_ret[i] = "true"
====
